---- MODULE Spec2Model ----
(***************************************************************************)
(* A model of malloclab-handout/mm.c: an explicit-free-list allocator with *)
(* boundary tags over a region obtained from mem_sbrk.                     *)
(*                                                                         *)
(* Memory is a sparse map from 4-byte-aligned byte addresses to 32-bit     *)
(* words: DOMAIN mem is the set of words written so far, a word never      *)
(* written reads as 0.  The region is [Base, brk).  Every helper of mm.c   *)
(* is an operator from an allocator state (a record) to an allocator state *)
(* that performs the reads and writes of the C code in program order.  An  *)
(* access outside the region ends the run with status "fault"; an endless  *)
(* free-list scan ends it with status "hang"; exit(1) with status "exit".  *)
(***************************************************************************)
EXTENDS Integers, Sequences, FiniteSets, TLC

\* ---------------------------------------------------------------- constants
WSIZE == 4
DSIZE == 8
CHUNKSIZE == 65536
OVERHEAD == 8
MISSLIMIT == 40
MINEXTEND == 24

\* ------------------------------------------------------------------- bounds
\* Address of the first byte of the region (mem_heap_lo()).
Base == 256 * 4096
\* The region driver refuses to grow the region beyond MaxChunks chunks
\* (plus the sentinel area and MaxSlack bytes).
MaxChunks == 3
MaxSlack == 48
\* At most MaxLive allocations are live at once.
MaxLive == 3
\* A run makes at most MaxCalls calls.
MaxCalls == 4
\* The caller writes the first UserWords words of a payload.
UserWords == 4

MaxBrk == Base + 4 * WSIZE + MaxChunks * CHUNKSIZE + MaxSlack

\* Request sizes: at most one alignment unit (adjusted to 16), two words
\* more (adjusted to 24), and one that fills a whole chunk.
Sizes == {8, 16, CHUNKSIZE - 8}
\* The value the caller writes into its payload.
UserVals == {85}
\* Pointer representations of the build: bytes per pointer and the upper
\* 32 bits of every address inside the region.
Envs == { [ptrw |-> 4, hi |-> 0], [ptrw |-> 8, hi |-> 0], [ptrw |-> 8, hi |-> 32528] }

VARIABLES
    env,     \* the build: pointer width and upper address word
    heap,    \* the allocator and the region: see InitHeap
    live,    \* caller's view: address of each live allocation |-> requested size
    op,      \* the last public call: name, arguments, result
    calls    \* the number of calls made so far

vars == <<env, heap, live, op, calls>>

\* --------------------------------------------------------- words and macros
\* PACK(size, alloc): size | alloc on one low bit.
PACK(size, alloc) == IF size % 2 = 1 THEN size ELSE size + alloc
\* GET_SIZE and GET_ALLOC of a word value: v & ~0x7 and v & 0x1.
SIZE_OF(v) == v - (v % 8)
ALLOC_OF(v) == v % 2

\* A size_t or uint32_t value is held as the integer of the same residue in
\* the signed range: a negative number n stands for the unsigned value
\* 2^w + n.  Sums and products are then the integer ones; x < y on unsigned
\* operands is ULT.
ULT(x, y) == IF (x < 0) = (y < 0) THEN x < y ELSE y < 0

\* MAX(x, y) where it is used: on an unsigned and an int operand.
MAX(x, y) == IF ULT(y, x) THEN x ELSE y

\* A pointer value is <<upper word, lower word>>.  A pointer into the region
\* has upper word env.hi; the null pointer is <<0, 0>>.
NULLP == <<0, 0>>
P(a) == IF a = 0 THEN NULLP ELSE <<env.hi, a>>
\* The address a pointer value denotes; an address outside every region
\* when its upper word is not the region's.
WILD == 0 - DSIZE
Addr(p) == IF p = NULLP THEN 0 ELSE IF p[1] = env.hi THEN p[2] ELSE WILD

\* The word at a is inside the region.
InRegion(st, a) == a >= Base /\ a + WSIZE <= st.brk /\ a % WSIZE = 0

Running(st) == st.status = "ok"
Fault(st) == IF Running(st) THEN [st EXCEPT !.status = "fault"] ELSE st
\* The state after the code has read the words at addresses as.
Touch(st, as) == IF \E a \in as : ~InRegion(st, a) THEN Fault(st) ELSE st

\* GET(p): the word at address a.
GET(st, a) == IF a \in DOMAIN st.mem THEN st.mem[a] ELSE 0
\* PUT(p, val).
PUT(st, a, v) ==
    IF ~Running(st) THEN st
    ELSE IF ~InRegion(st, a) THEN Fault(st)
    ELSE [st EXCEPT !.mem = (a :> v) @@ st.mem]

HDRP(bp) == bp - WSIZE
\* FTRP(bp) reads the header of bp.
FTRP(st, bp) == bp + SIZE_OF(GET(st, HDRP(bp))) - DSIZE
\* NEXT_BLKP(bp) reads the header of bp; PREV_BLKP(bp) the word before it.
NEXT_BLKP(st, bp) == bp + SIZE_OF(GET(st, bp - WSIZE))
PREV_BLKP(st, bp) == bp - SIZE_OF(GET(st, bp - DSIZE))

\* The words a pointer stored at address a occupies.
PtrWords(a) == IF env.ptrw = 4 THEN {a} ELSE {a, a + WSIZE}
\* *(char **)(a)
LoadP(st, a) == IF env.ptrw = 4 THEN <<0, GET(st, a)>> ELSE <<GET(st, a + WSIZE), GET(st, a)>>
\* *(char **)(a) = p
StoreP(st, a, p) ==
    IF env.ptrw = 4 THEN PUT(st, a, p[2])
    ELSE PUT(PUT(st, a, p[2]), a + WSIZE, p[1])

\* GET_NEXT(bp) and GET_PREV(bp): the link words of a free block.
GET_NEXT(st, bp) == LoadP(st, bp)
GET_PREV(st, bp) == LoadP(st, bp + DSIZE)
SET_NEXT(st, bp, qp) == StoreP(Touch(st, PtrWords(bp)), bp, qp)
SET_PREV(st, bp, qp) == StoreP(Touch(st, PtrWords(bp + DSIZE)), bp + DSIZE, qp)

\* PUT(HDRP(bp), v); PUT(FTRP(bp), v), which reads the header of bp; and
\* PUT(HDRP(NEXT_BLKP(bp)), v), which reads it too.
PutHdr(st, bp, v) == PUT(st, HDRP(bp), v)
PutFtr(st, bp, v) == PUT(Touch(st, {HDRP(bp)}), FTRP(st, bp), v)
PutNextHdr(st, bp, v) == PUT(Touch(st, {HDRP(bp)}), HDRP(NEXT_BLKP(st, bp)), v)
\* PUT(HDRP(bp), v); PUT(FTRP(bp), v);
PutTags(st, bp, v) == PutFtr(PutHdr(st, bp, v), bp, v)

\* free_listp = p
SetHead(st, p) == IF Running(st) THEN [st EXCEPT !.free_listp = p] ELSE st

\* ------------------------------------------------------------ free list
\* edit_free_list(bp, i) with i != 0: insert bp at the head.
ListInsert(st, bp) ==
    SetHead(SET_PREV(IF st.free_listp # NULLP
                     THEN SET_NEXT(SET_PREV(st, Addr(st.free_listp), P(bp)), bp, st.free_listp)
                     ELSE SET_NEXT(st, bp, NULLP),
                     bp, NULLP),
            P(bp))

\* if (GET_PREV(bp)) SET_NEXT(GET_PREV(bp), GET_NEXT(bp));
\* else free_listp = GET_NEXT(bp);
UnlinkFromPrev(st, bp) ==
    IF GET_PREV(st, bp) # NULLP
    THEN SET_NEXT(st, Addr(GET_PREV(st, bp)), GET_NEXT(st, bp))
    ELSE SetHead(st, GET_NEXT(st, bp))

\* if (GET_NEXT(bp)) SET_PREV(GET_NEXT(bp), GET_PREV(bp));
UnlinkFromNext(st, bp) ==
    IF GET_NEXT(st, bp) # NULLP
    THEN SET_PREV(st, Addr(GET_NEXT(st, bp)), GET_PREV(st, bp))
    ELSE st

\* edit_free_list(bp, 0): unlink bp, reading its link words as the code does.
ListRemove(st, bp) ==
    UnlinkFromNext(UnlinkFromPrev(Touch(st, PtrWords(bp) \cup PtrWords(bp + DSIZE)), bp), bp)

edit_free_list(st, bp, i) ==
    IF ~Running(st) THEN st
    ELSE IF i # 0 THEN ListInsert(st, bp) ELSE ListRemove(st, bp)

\* ------------------------------------------------------------- coalesce
\* prev_alloc = GET_ALLOC(FTRP(PREV_BLKP(bp))) || PREV_BLKP(bp) == bp
PrevAlloc(st, bp) ==
    ALLOC_OF(GET(st, FTRP(st, PREV_BLKP(st, bp)))) = 1 \/ PREV_BLKP(st, bp) = bp
\* next_alloc = GET_ALLOC(HDRP(NEXT_BLKP(bp)))
NextAlloc(st, bp) == ALLOC_OF(GET(st, HDRP(NEXT_BLKP(st, bp)))) = 1
\* The words the first three lines of coalesce read.
CoalesceReads(st, bp) ==
    {bp - DSIZE, HDRP(PREV_BLKP(st, bp)), FTRP(st, PREV_BLKP(st, bp)),
     HDRP(bp), HDRP(NEXT_BLKP(st, bp))}
HdrSize(st, bp) == SIZE_OF(GET(st, HDRP(bp)))
FtrSize(st, bp) == SIZE_OF(GET(st, FTRP(st, bp)))

\* Case 2: the successor is unlinked, then the tags of bp are rewritten.
Case2(st, bp) ==
    [st |-> PutTags(edit_free_list(st, NEXT_BLKP(st, bp), 0), bp,
                    PACK(HdrSize(st, bp) + HdrSize(st, NEXT_BLKP(st, bp)), 0)),
     bp |-> bp]

\* Case 3: the tags of the predecessor are rewritten, then it is unlinked.
Case3(st, bp) ==
    [st |-> edit_free_list(
                PutTags(st, PREV_BLKP(st, bp),
                        PACK(HdrSize(st, bp) + HdrSize(st, PREV_BLKP(st, bp)), 0)),
                PREV_BLKP(st, bp), 0),
     bp |-> PREV_BLKP(st, bp)]

\* Case 4, after the successor is unlinked: PREV_BLKP(bp) is evaluated anew
\* for each of PUT(HDRP(PREV_BLKP(bp))), PUT(FTRP(PREV_BLKP(bp))) and
\* bp = PREV_BLKP(bp); then the predecessor is unlinked.
Case4Unlink(st, bp) == [st |-> edit_free_list(st, PREV_BLKP(st, bp), 0), bp |-> PREV_BLKP(st, bp)]
Case4Ftr(st, bp, v) == PutFtr(Touch(st, {bp - DSIZE}), PREV_BLKP(st, bp), v)
Case4Hdr(st, bp, v) == PutHdr(Touch(st, {bp - DSIZE}), PREV_BLKP(st, bp), v)
Case4Tags(st, bp, v) == Case4Unlink(Case4Ftr(Case4Hdr(st, bp, v), bp, v), bp)
Case4Sized(st, bp, v) == Case4Tags(edit_free_list(st, NEXT_BLKP(st, bp), 0), bp, v)
Case4(st, bp) ==
    Case4Sized(st, bp,
               PACK(HdrSize(st, bp) + HdrSize(st, PREV_BLKP(st, bp))
                    + FtrSize(st, NEXT_BLKP(st, bp)), 0))

\* edit_free_list(bp, 1); return bp;
InsertCoalesced(r) == [st |-> edit_free_list(r.st, r.bp, 1), bp |-> r.bp]

Coalesced(st, bp) ==
    IF ~Running(st) THEN [st |-> st, bp |-> 0]
    ELSE IF PrevAlloc(st, bp) /\ NextAlloc(st, bp) THEN InsertCoalesced([st |-> st, bp |-> bp])
    ELSE IF PrevAlloc(st, bp) THEN InsertCoalesced(Case2(st, bp))
    ELSE IF NextAlloc(st, bp) THEN InsertCoalesced(Case3(st, bp))
    ELSE InsertCoalesced(Case4(Touch(st, {FTRP(st, NEXT_BLKP(st, bp))}), bp))

\* coalesce(bp): [st |-> the state after, bp |-> the block returned].
coalesce(st, bp) == Coalesced(Touch(st, CoalesceReads(st, bp)), bp)

\* ------------------------------------------------------- region driver
\* mem_sbrk(incr) under a driver that grants addresses up to lim and never
\* shrinks the region (incr is an int):
\* [st |-> the state after, bp |-> the old break, or -1 when refused].
mem_sbrk(st, incr, lim) ==
    IF incr < 0 \/ st.brk + incr > lim THEN [st |-> [st EXCEPT !.denied = TRUE], bp |-> 0 - 1]
    ELSE [st |-> [st EXCEPT !.brk = st.brk + incr], bp |-> st.brk]

\* ---------------------------------------------------------- extend_heap
\* size = (words % 2) ? (words+1) * WSIZE : words * WSIZE; if (size < 24) size = 24;
ExtendSize(words) ==
    IF ULT(IF words % 2 = 1 THEN (words + 1) * WSIZE ELSE words * WSIZE, MINEXTEND)
    THEN MINEXTEND
    ELSE IF words % 2 = 1 THEN (words + 1) * WSIZE ELSE words * WSIZE

\* The free block header and footer and the new epilogue header.
NewBlock(st, bp, size) ==
    PutNextHdr(PutTags(st, bp, PACK(size, 0)), bp, PACK(0, 1))

\* extend_heap with the refusal of mem_sbrk tested against NULL, as mm_init
\* tests it, instead of (void *)-1.
Extended_null_test(r, size) ==
    IF r.bp = 0 THEN [st |-> r.st, bp |-> 0]
    ELSE coalesce(NewBlock(r.st, r.bp, size), r.bp)

\* extend_heap after mem_sbrk has returned r.
Extended(r, size) ==
    IF r.bp = 0 - 1 THEN [st |-> r.st, bp |-> 0]
    ELSE coalesce(NewBlock(r.st, r.bp, size), r.bp)

\* extend_heap(words): [st, bp] with bp = 0 for NULL.
extend_heap(st, words, lim) ==
    IF ~Running(st) THEN [st |-> st, bp |-> 0]
    ELSE Extended(mem_sbrk(st, ExtendSize(words), lim), ExtendSize(words))

\* ---------------------------------------------------------------- place
\* The remainder of a split: its tags, then its insertion.
SplitRest(st, nb, rem) == edit_free_list(PutTags(st, nb, PACK(rem, 0)), nb, 1)
Split(st, bp, asize, rem) == SplitRest(st, NEXT_BLKP(st, bp), rem)

\* place after edit_free_list(bp, 0).  csize - asize is computed in 32 bits
\* without sign: when csize < asize it is a huge value and the split branch
\* is taken with it; the model ends such a run with status "wrap".
Placed(st, bp, asize, csize) ==
    IF ~Running(st) THEN st
    ELSE IF csize < asize THEN [st EXCEPT !.status = "wrap"]
    ELSE IF csize - asize >= DSIZE * 3
         THEN Split(PutTags(st, bp, PACK(asize, 1)), bp, asize, csize - asize)
    ELSE PutTags(st, bp, PACK(csize, 1))

\* place(bp, asize).
place(st, bp, asize) ==
    Placed(edit_free_list(Touch(st, {HDRP(bp)}), bp, 0), bp, asize, HdrSize(st, bp))

\* ------------------------------------------------------------- find_fit
\* The scan of find_fit from list node fp; fuel bounds the nodes visited,
\* and a scan that outlasts it is going round a cycle of the list.
RECURSIVE Scan(_, _, _, _)
Scan(st, fp, asize, fuel) ==
    IF fp = NULLP THEN [st |-> st, bp |-> 0]
    ELSE IF fuel = 0 THEN [st |-> [st EXCEPT !.status = "hang"], bp |-> 0]
    ELSE IF ~InRegion(st, HDRP(Addr(fp))) THEN [st |-> Fault(st), bp |-> 0]
    ELSE IF ~ULT(HdrSize(st, Addr(fp)), asize)
         THEN [st |-> [st EXCEPT !.size = asize], bp |-> Addr(fp)]
    ELSE IF \E a \in PtrWords(Addr(fp)) : ~InRegion(st, a) THEN [st |-> Fault(st), bp |-> 0]
    ELSE Scan(st, GET_NEXT(st, Addr(fp)), asize, fuel - 1)

ScanList(st, asize) == Scan(st, st.free_listp, asize, Cardinality(DOMAIN st.mem) + 1)

\* find_fit(asize): [st, bp].
find_fit(st, asize, lim) ==
    IF st.size = asize /\ st.count > MISSLIMIT
    THEN extend_heap(st, MAX(asize, 4 * WSIZE) \div 4, lim)
    ELSE IF st.size = asize
         THEN ScanList([st EXCEPT !.count = st.count + 1], asize)
    ELSE ScanList([st EXCEPT !.count = 0], asize)

\* -------------------------------------------------------------- mm_init
\* The pad word, the prologue and the epilogue; free_listp = NULL.
Sentinels(st, h) ==
    SetHead(PUT(PUT(PUT(PUT(st, h, 0),
                        h + WSIZE, PACK(OVERHEAD, 1)),
                    h + DSIZE, PACK(OVERHEAD, 1)),
                h + WSIZE + DSIZE, PACK(0, 1)),
            NULLP)

InitResult(e) == [st |-> e.st, rv |-> IF e.bp = 0 THEN 0 - 1 ELSE 0]

\* mm_init after mem_sbrk has returned r: the result is compared with NULL.
InitAt(r, lim) ==
    IF r.bp = 0 THEN [st |-> [r.st EXCEPT !.heap_listp = 0], rv |-> 0 - 1]
    ELSE InitResult(extend_heap(Sentinels([r.st EXCEPT !.heap_listp = r.bp], r.bp),
                                CHUNKSIZE \div WSIZE, lim))

\* mm_init(): [st, rv].
mm_init(st, lim) == InitAt(mem_sbrk(st, 4 * WSIZE, lim), lim)

\* if (!heap_listp) mm_init();
LazyInit(st, lim) ==
    IF Running(st) /\ st.heap_listp = 0 THEN mm_init(st, lim).st ELSE st

\* ------------------------------------------------------------ mm_malloc
\* The adjusted block size of a request of size bytes, as the uint32_t
\* asize holds it.  The sum is taken in size_t: for size = 2^w + n with
\* n >= -15 it wraps to n + 15; the quotient by 8 times 8 clears the low
\* three bits, which floor division does on either sign.
ADJ(size) ==
    IF ~ULT(DSIZE, size) THEN DSIZE + OVERHEAD
    ELSE DSIZE * ((size + OVERHEAD + (DSIZE - 1)) \div DSIZE)

\* mm_malloc after extend_heap has returned e.
PlaceExtended(e, asize) ==
    IF e.bp = 0 THEN [st |-> e.st, bp |-> 0]
    ELSE [st |-> place(e.st, e.bp, asize), bp |-> e.bp]

\* mm_malloc after find_fit has returned f.
PlaceFit(f, asize, lim) ==
    IF ~Running(f.st) THEN [st |-> f.st, bp |-> 0]
    ELSE IF f.bp # 0 THEN [st |-> place(f.st, f.bp, asize), bp |-> f.bp]
    ELSE PlaceExtended(extend_heap(f.st, MAX(asize, CHUNKSIZE) \div WSIZE, lim), asize)

\* mm_malloc without the test for a spurious request.
Requested_no_zero_test(st, size, lim) ==
    IF ~Running(st) THEN [st |-> st, bp |-> 0]
    ELSE PlaceFit(find_fit(st, ADJ(size), lim), ADJ(size), lim)

\* mm_malloc after the lazy initialization.
Requested(st, size, lim) ==
    IF ~Running(st) \/ ~ULT(0, size) THEN [st |-> st, bp |-> 0]
    ELSE PlaceFit(find_fit(st, ADJ(size), lim), ADJ(size), lim)

\* mm_malloc(size): [st, bp] with bp = 0 for NULL.
mm_malloc(st, size, lim) == Requested(LazyInit(st, lim), size, lim)

\* -------------------------------------------------------------- mm_free
\* mm_free after the lazy initialization, size being the size read from the
\* header of bp on entry.
Released(st, bp, size) ==
    IF ~Running(st) THEN st
    ELSE coalesce(PutTags(st, bp, PACK(size, 0)), bp).st

\* mm_free(bp).  The header of bp is read before bp is compared with NULL:
\* for a null bp that read either traps or has been dropped by the compiler
\* (elide), its value being unused on the path that returns.
mm_free(st, bp, elide, lim) ==
    IF bp = 0 THEN (IF elide THEN st ELSE Touch(st, {HDRP(bp)}))
    ELSE Released(LazyInit(Touch(st, {HDRP(bp)}), lim), bp, HdrSize(st, bp))

\* ----------------------------------------------------------- mm_realloc
\* memcpy(dst, src, n) on whole words; a source word never written leaves
\* the destination word unwritten.
Copied(st, dst, src, n) ==
    IF ~Running(st) THEN st
    ELSE [st EXCEPT !.mem =
            [a \in (DOMAIN st.mem \ {d \in DOMAIN st.mem : dst <= d /\ d < dst + n})
                   \cup {x - src + dst : x \in {y \in DOMAIN st.mem : src <= y /\ y < src + n}} |->
                IF dst <= a /\ a < dst + n THEN st.mem[a - dst + src] ELSE st.mem[a]]]

memcpy(st, dst, src, n) ==
    Copied(Touch(st, IF n <= 0 THEN {} ELSE {src, src + n - WSIZE, dst, dst + n - WSIZE}),
           dst, src, n)

\* copySize = GET_SIZE(HDRP(ptr)); if (size < copySize) copySize = size;
CopySize(st, ptr, size) == IF ULT(size, HdrSize(st, ptr)) THEN size ELSE HdrSize(st, ptr)

\* mm_realloc after mm_malloc has returned m.
Moved(m, ptr, size, lim) ==
    IF ~Running(m.st) THEN [st |-> m.st, bp |-> 0]
    ELSE IF m.bp = 0 THEN [st |-> [m.st EXCEPT !.status = "exit"], bp |-> 0]
    ELSE [st |-> mm_free(memcpy(Touch(m.st, {HDRP(ptr)}), m.bp, ptr,
                                CopySize(m.st, ptr, size)),
                         ptr, FALSE, lim),
          bp |-> m.bp]

\* mm_realloc(ptr, size): [st, bp].
mm_realloc(st, ptr, size, lim) == Moved(mm_malloc(st, size, lim), ptr, size, lim)

\* ------------------------------------------------------ state and calls
\* The program before any call: the globals of mm.c are null, the statics
\* of find_fit are 0, the region is empty.
InitHeap ==
    [mem |-> [a \in {} |-> 0], brk |-> Base, heap_listp |-> 0, free_listp |-> NULLP,
     size |-> 0, count |-> 0, status |-> "ok", denied |-> FALSE]

\* The limits the driver may be under during one call: it refuses every
\* request, grants the sentinel area only, or grants up to MaxBrk.
Lims == {0, Base + 4 * WSIZE, MaxBrk}
LimsOf(st) == IF st.heap_listp = 0 THEN Lims ELSE {0, MaxBrk}

EmptyFn == [a \in {} |-> 0]
Without(f, x) == [a \in DOMAIN f \ {x} |-> f[a]]

\* The state a call starts in: no request of this call has been refused yet.
Enter(st) == [st EXCEPT !.denied = FALSE]
\* The state a call leaves: a process that has ended has no heap any more.
Leave(st) ==
    IF Running(st) THEN st
    ELSE [InitHeap EXCEPT !.status = st.status, !.denied = st.denied]

\* What the caller receives: nothing from a call that did not return.
Ret(st, v) == IF Running(st) THEN v ELSE 0

Init ==
    /\ env \in Envs
    /\ heap = InitHeap
    /\ live = EmptyFn
    /\ op = [name |-> "none", p |-> 0, n |-> 0, ret |-> 0]
    /\ calls = 0

\* mm_init() on the empty region.
MmInit(lim) ==
    /\ Running(heap) /\ heap.heap_listp = 0 /\ calls < MaxCalls
    /\ LET r == mm_init(Enter(heap), lim)
       IN  /\ heap' = Leave(r.st)
           /\ op' = [name |-> "init", p |-> 0, n |-> 0, ret |-> Ret(r.st, r.rv)]
    /\ calls' = calls + 1
    /\ UNCHANGED <<env, live>>

\* p = mm_malloc(n).
Malloc(n, lim) ==
    /\ Running(heap) /\ Cardinality(DOMAIN live) < MaxLive /\ calls < MaxCalls
    /\ LET r == mm_malloc(Enter(heap), n, lim)
       IN  /\ heap' = Leave(r.st)
           /\ op' = [name |-> "malloc", p |-> 0, n |-> n, ret |-> Ret(r.st, r.bp)]
           /\ live' = IF ~Running(r.st) THEN EmptyFn
                      ELSE IF r.bp # 0 THEN (r.bp :> n) @@ live ELSE live
    /\ calls' = calls + 1
    /\ UNCHANGED env

\* mm_free(p) of a live reference or of NULL.
Free(p, elide) ==
    /\ Running(heap) /\ calls < MaxCalls
    /\ p = 0 \/ ~elide
    /\ LET s == mm_free(Enter(heap), p, elide, 0)
       IN  /\ heap' = Leave(s)
           /\ op' = [name |-> "free", p |-> p, n |-> 0, ret |-> 0]
           /\ live' = IF ~Running(s) THEN EmptyFn
                      ELSE IF p # 0 THEN Without(live, p) ELSE live
    /\ calls' = calls + 1
    /\ UNCHANGED env

\* q = mm_realloc(p, n) of a live reference or of NULL.
Realloc(p, n, lim) ==
    /\ Running(heap) /\ calls < MaxCalls
    /\ LET r == mm_realloc(Enter(heap), p, n, lim)
       IN  /\ heap' = Leave(r.st)
           /\ op' = [name |-> "realloc", p |-> p, n |-> n, ret |-> Ret(r.st, r.bp)]
           /\ live' = IF ~Running(r.st) THEN EmptyFn
                      ELSE (r.bp :> n) @@ Without(live, p)
    /\ calls' = calls + 1
    /\ UNCHANGED env

\* The words of p's payload the caller writes.
UserRange(p, n) ==
    {p + WSIZE * i : i \in 0 .. ((IF n \div WSIZE < UserWords THEN n \div WSIZE ELSE UserWords) - 1)}

\* The caller stores v into the first words of the payload of p.
UserWrite(p, v) ==
    /\ Running(heap) /\ calls < MaxCalls
    /\ \E a \in UserRange(p, live[p]) : GET(heap, a) # v
    /\ heap' = [heap EXCEPT !.mem = [a \in UserRange(p, live[p]) |-> v] @@ heap.mem]
    /\ op' = [name |-> "write", p |-> p, n |-> 0, ret |-> 0]
    /\ calls' = calls + 1
    /\ UNCHANGED <<env, live>>

Next ==
    \/ \E lim \in Lims : MmInit(lim)
    \/ \E n \in Sizes \cup {0}, lim \in LimsOf(heap) : Malloc(n, lim)
    \/ \E p \in DOMAIN live \cup {0}, elide \in BOOLEAN : Free(p, elide)
    \/ \E p \in DOMAIN live \cup {0}, n \in Sizes \cup {0}, lim \in LimsOf(heap) : Realloc(p, n, lim)
    \/ \E p \in DOMAIN live, v \in UserVals : UserWrite(p, v)

Spec == Init /\ [][Next]_vars

\* ---------------------------------------------- a heap with a history
\* One request of WarmSize bytes that is released at once.
WarmSize == 2 * DSIZE
Release(r) == mm_free(r.st, r.bp, FALSE, MaxBrk)
ChurnOnce(st) == Release(mm_malloc(Enter(st), WarmSize, MaxBrk))
\* The heap after k such requests, the first of which initializes it.
RECURSIVE Churn(_, _)
Churn(st, k) ==
    IF k = 0 THEN st
    ELSE CHOOSE h \in {Churn(t, k - 1) : t \in {ChurnOnce(st)}} : TRUE

\* The program after MISSLIMIT - 1, MISSLIMIT or MISSLIMIT + 1 requests of
\* one size, every one of them served from the free list and released.
InitWarm ==
    /\ env \in Envs
    /\ \E k \in {MISSLIMIT - 1, MISSLIMIT, MISSLIMIT + 1} : heap = Churn(InitHeap, k)
    /\ live = EmptyFn
    /\ op = [name |-> "none", p |-> 0, n |-> 0, ret |-> 0]
    /\ calls = 0

\* The caller goes on with requests and releases.
NextWarm ==
    \/ \E n \in Sizes, lim \in LimsOf(heap) : Malloc(n, lim)
    \/ \E p \in DOMAIN live : Free(p, FALSE)

SpecWarm == InitWarm /\ [][NextWarm]_vars

\* ------------------------------------------------------ a second run
\* The driver hands out an empty region again: the break is back at the
\* base and nothing of the old region is kept.  The globals of mm.c and the
\* statics of find_fit are what the run before left.
EmptyRegion(st) == [st EXCEPT !.brk = Base, !.mem = EmptyFn, !.denied = FALSE]

\* mm_init() on the empty region, after a run of the program.
Restart ==
    /\ Running(heap) /\ calls < MaxCalls
    /\ LET r == mm_init(EmptyRegion(heap), MaxBrk)
       IN  /\ heap' = Leave(r.st)
           /\ op' = [name |-> "restart", p |-> 0, n |-> 0, ret |-> Ret(r.st, r.rv)]
    /\ live' = EmptyFn
    /\ calls' = calls + 1
    /\ UNCHANGED env

\* The caller goes on with requests and releases, and with second runs.
NextRerun ==
    \/ \E n \in Sizes, lim \in LimsOf(heap) : Malloc(n, lim)
    \/ \E p \in DOMAIN live : Free(p, FALSE)
    \/ Restart

SpecRerun == InitWarm /\ [][NextRerun]_vars

\* The heap of a first run after mm_init().
FreshHeap == mm_init(InitHeap, MaxBrk).st

\* ------------------------------------------- a heap with a small block
\* The program after a first call a = mm_malloc(DSIZE), which initializes
\* the heap and makes a block of DSIZE + OVERHEAD bytes.
FirstSmall == mm_malloc(InitHeap, DSIZE, MaxBrk)
InitSmall ==
    /\ env \in Envs
    /\ heap = FirstSmall.st
    /\ live = (FirstSmall.bp :> DSIZE)
    /\ op = [name |-> "malloc", p |-> 0, n |-> DSIZE, ret |-> FirstSmall.bp]
    /\ calls = 0

\* The caller goes on with calls on live references and with stores into
\* their payloads, the driver granting every request.
NextSmall ==
    \/ \E n \in Sizes : Malloc(n, MaxBrk)
    \/ \E p \in DOMAIN live : Free(p, FALSE)
    \/ \E p \in DOMAIN live : Realloc(p, DSIZE, MaxBrk)
    \/ \E p \in DOMAIN live, v \in UserVals : UserWrite(p, v)

SpecSmall == InitSmall /\ [][NextSmall]_vars

\* ------------------------------------------------ requests near 2^w
\* Requests whose size is negative when read as a signed integer: 2^w - 1,
\* 2^w - 8, 2^w - 16 and 2^w - 65536, for the width w of size_t in each
\* build.  The caller mixes them with ordinary requests and releases, the
\* driver granting every request the region has room for.
HugeSizes == {0 - 1, 0 - DSIZE, 0 - 2 * DSIZE, 0 - CHUNKSIZE}

NextHuge ==
    \/ \E n \in Sizes \cup HugeSizes : Malloc(n, MaxBrk)
    \/ \E p \in DOMAIN live : Free(p, FALSE)

SpecHuge == Init /\ [][NextHuge]_vars

\* ------------------------------------------------- reading the heap back
\* The blocks a walk of the heap meets from block bp on, in address order,
\* up to the first header of size 0 (the epilogue).
RECURSIVE Walk(_, _, _)
Walk(st, bp, fuel) ==
    IF fuel = 0 \/ ~InRegion(st, HDRP(bp)) \/ SIZE_OF(GET(st, HDRP(bp))) = 0 THEN <<>>
    ELSE <<bp>> \o Walk(st, NEXT_BLKP(st, bp), fuel - 1)

\* The first block after the prologue, and the blocks of the heap.
FirstBlock(st) == st.heap_listp + 2 * DSIZE
HeapBlocks(st) == Walk(st, FirstBlock(st), Cardinality(DOMAIN st.mem) + 1)
\* The block at which the walk stops.
WalkEnd(st) ==
    LET w == HeapBlocks(st)
    IN  IF w = <<>> THEN FirstBlock(st) ELSE NEXT_BLKP(st, w[Len(w)])

\* The nodes reached from list node fp by next links, in list order; the
\* walk stops at a node outside the region.
RECURSIVE ListWalk(_, _, _)
ListWalk(st, fp, fuel) ==
    IF fp = NULLP \/ fuel = 0 THEN <<>>
    ELSE IF \E a \in PtrWords(Addr(fp)) \cup {HDRP(Addr(fp))} : ~InRegion(st, a) THEN <<WILD>>
    ELSE <<Addr(fp)>> \o ListWalk(st, GET_NEXT(st, Addr(fp)), fuel - 1)

FreeNodes(st) == ListWalk(st, st.free_listp, Cardinality(DOMAIN st.mem) + 1)

Range(s) == {s[i] : i \in DOMAIN s}
IsFree(st, bp) == ALLOC_OF(GET(st, HDRP(bp))) = 0
BlockSize(st, bp) == SIZE_OF(GET(st, HDRP(bp)))
Initialized(st) == Running(st) /\ st.heap_listp # 0

\* The words of memory written so far that lie in [lo, lo + n).
WordsIn(st, lo, n) == {a \in DOMAIN st.mem : lo <= a /\ a < lo + n}

\* --------------------------------------------------------- mm_checkheap
\* How a run of the checker ends: "ok" when it returns, "exit" when it
\* reports a violation and calls exit(1), "fault" when it reads a word
\* outside the region, "hang" when a walk never ends.
\* printblock(bp) reads the header and the footer of bp.
printblock(st, bp) ==
    IF ~InRegion(st, HDRP(bp)) \/ ~InRegion(st, FTRP(st, bp)) THEN "fault" ELSE "ok"

\* checkblock(bp): bp inside [mem_heap_lo(), mem_heap_hi()], aligned to 8,
\* header word equal to footer word.
checkblock(st, bp) ==
    IF ~(bp <= st.brk - 1 /\ bp >= Base) THEN "exit"
    ELSE IF bp % DSIZE # 0 THEN "exit"
    ELSE IF ~InRegion(st, HDRP(bp)) \/ ~InRegion(st, FTRP(st, bp)) THEN "fault"
    ELSE IF GET(st, HDRP(bp)) # GET(st, FTRP(st, bp)) THEN "exit"
    ELSE "ok"

\* The heap walk of mm_checkheap from block bp, n free blocks counted so
\* far: [status, bp |-> the block the walk stops at, n |-> heap_counter].
RECURSIVE CheckWalk(_, _, _, _)
CheckWalk(st, bp, n, fuel) ==
    IF ~InRegion(st, HDRP(bp)) THEN [status |-> "fault", bp |-> bp, n |-> n]
    ELSE IF HdrSize(st, bp) = 0 THEN [status |-> "ok", bp |-> bp, n |-> n]
    ELSE IF fuel = 0 THEN [status |-> "hang", bp |-> bp, n |-> n]
    ELSE IF printblock(st, bp) # "ok" THEN [status |-> printblock(st, bp), bp |-> bp, n |-> n]
    ELSE IF checkblock(st, bp) # "ok" THEN [status |-> checkblock(st, bp), bp |-> bp, n |-> n]
    ELSE CheckWalk(st, NEXT_BLKP(st, bp), IF IsFree(st, bp) THEN n + 1 ELSE n, fuel - 1)

\* The free-list walk of mm_checkheap from node cp, n nodes counted so far:
\* checkblock(cp); list_counter++; cp = GET_NEXT(cp); printblock(cp);
RECURSIVE CheckList(_, _, _, _)
CheckList(st, cp, n, fuel) ==
    IF cp = NULLP THEN [status |-> "ok", n |-> n]
    ELSE IF fuel = 0 THEN [status |-> "hang", n |-> n]
    ELSE IF checkblock(st, Addr(cp)) # "ok" THEN [status |-> checkblock(st, Addr(cp)), n |-> n]
    ELSE IF \E a \in PtrWords(Addr(cp)) : ~InRegion(st, a) THEN [status |-> "fault", n |-> n]
    ELSE IF printblock(st, Addr(GET_NEXT(st, Addr(cp)))) # "ok"
         THEN [status |-> printblock(st, Addr(GET_NEXT(st, Addr(cp)))), n |-> n + 1]
    ELSE CheckList(st, GET_NEXT(st, Addr(cp)), n + 1, fuel - 1)

\* The end of mm_checkheap: the epilogue test on the block w.bp at which the
\* heap walk stopped, then the comparison of the two counters.
CheckCounts(st, w, l) ==
    IF l.status # "ok" THEN l.status
    ELSE IF HdrSize(st, w.bp) # 0 \/ IsFree(st, w.bp) THEN "exit"
    ELSE IF w.n # l.n THEN "exit"
    ELSE "ok"

\* mm_checkheap after the tests on go: the two walks.
CheckWalks(st, w) ==
    IF w.status # "ok" THEN w.status
    ELSE CheckCounts(st, w, CheckList(st, st.free_listp, 0, Cardinality(DOMAIN st.mem) + 1))

\* mm_checkheap with go = free_listp + DSIZE.
CheckFrom(st, go) ==
    IF st.heap_listp # Base THEN "exit"
    ELSE IF ~InRegion(st, HDRP(go)) THEN "fault"
    ELSE IF HdrSize(st, go) # DSIZE \/ IsFree(st, go) THEN "exit"
    ELSE IF ~InRegion(st, FTRP(st, go)) THEN "fault"
    ELSE IF FtrSize(st, go) # DSIZE \/ ALLOC_OF(GET(st, FTRP(st, go))) = 0 THEN "exit"
    ELSE IF checkblock(st, go) # "ok" THEN checkblock(st, go)
    ELSE CheckWalks(st, CheckWalk(st, NEXT_BLKP(st, go), 0, Cardinality(DOMAIN st.mem) + 1))

\* mm_checkheap(verbose): how the run ends.
mm_checkheap(st) == CheckFrom(st, Addr(st.free_listp) + DSIZE)

\* ================================================================ claims

\* C1: through every sequence of calls on live references, the payloads
\* [p, p + n) of the live allocations lie inside the region, are pairwise
\* disjoint, a returned reference is never one that is still live, and no
\* call of the allocator changes a word of the payload of an allocation that
\* is live before and after it.
C1_PayloadsOwned ==
    [][Running(heap') =>
        /\ \A p \in DOMAIN live' : p >= Base /\ p + live'[p] <= heap'.brk
        /\ \A p, q \in DOMAIN live' : p < q => p + live'[p] <= q
        /\ (op'.name \in {"malloc", "realloc"} /\ op'.ret # 0) => op'.ret \notin DOMAIN live
        /\ op'.name # "write" =>
              \A p \in DOMAIN live \cap DOMAIN live' :
                 \A a \in WordsIn(heap, p, live[p]) \cup WordsIn(heap', p, live[p]) :
                    GET(heap', a) = GET(heap, a)]_vars

\* C2: in every state in which mm_malloc(n) has just returned a reference p,
\* mm_free(p) followed by mm_malloc(m), 0 < m <= n, under a driver willing
\* to grow the region, runs to completion, returns a non-null reference and
\* leaves the break where it was after the mm_free.
C2_RoundTripReuses ==
    (Running(heap) /\ op.name = "malloc" /\ op.ret # 0) =>
        \A m \in Sizes :
            m <= op.n =>
                LET s2 == mm_free(Enter(heap), op.ret, FALSE, MaxBrk)
                    r3 == mm_malloc(Enter(s2), m, MaxBrk)
                IN  /\ Running(s2) /\ Running(r3.st)
                    /\ r3.bp # 0
                    /\ r3.st.brk = s2.brk

\* C3: mm_realloc(X, n) of a live X with n > 0 that returns: the result is
\* not X, its first min(n, requested size of X) bytes are X's bytes before
\* the call, X's header says free, X's bytes lie in a block of the free list,
\* and the payload of every other live allocation is unchanged.
C3_ReallocMovesAndCopies ==
    [][(op'.name = "realloc" /\ op'.p \in DOMAIN live /\ op'.n > 0
        /\ heap'.status # "exit") =>
        LET X == op'.p
            c == IF op'.n < live[X] THEN op'.n ELSE live[X]
        IN  /\ Running(heap')
            /\ op'.ret # X /\ op'.ret # 0
            /\ \A a \in WordsIn(heap, X, c) : GET(heap', a - X + op'.ret) = GET(heap, a)
            /\ \A a \in WordsIn(heap', op'.ret, c) : GET(heap', a) = GET(heap, a - op'.ret + X)
            /\ \E b \in Range(FreeNodes(heap')) :
                  b <= X /\ X < b + BlockSize(heap', b) /\ IsFree(heap', b)
            /\ \A q \in DOMAIN live \ {X} :
                  \A a \in WordsIn(heap, q, live[q]) \cup WordsIn(heap', q, live[q]) :
                     GET(heap', a) = GET(heap, a)]_vars

\* The allocator's view of the heap: everything but the statics of
\* find_fit and the driver's record of a refusal.
View(st) == [mem |-> st.mem, brk |-> st.brk, heap_listp |-> st.heap_listp,
             free_listp |-> st.free_listp, status |-> st.status]

\* C4 as stated: in every state, the one before initialization included,
\* mm_malloc(0) returns NULL and leaves the region, every word of the heap
\* and the free list as they were.
C4_ZeroRequestAnywhere ==
    [][(op'.name = "malloc" /\ op'.n = 0) =>
        (op'.ret = 0 /\ View(heap') = View(heap))]_vars

\* C4 as amended: mm_malloc(0) returns NULL whenever it returns; once the
\* heap is initialized it leaves the region, every word of the heap, the free
\* list and the statics of find_fit as they were.  (Before that it runs the
\* lazy mm_init first, which grows the region.)
C4_ZeroRequestInitialized ==
    [][(op'.name = "malloc" /\ op'.n = 0) =>
        /\ op'.ret = 0
        /\ heap.heap_listp # 0 =>
              /\ Running(heap') /\ View(heap') = View(heap)
              /\ heap'.size = heap.size /\ heap'.count = heap.count /\ live' = live]_vars

\* mm_malloc(0) has returned NULL on an initialized heap with a live
\* allocation and a free block.
C4_Witness ==
    /\ op.name = "malloc" /\ op.n = 0 /\ op.ret = 0
    /\ Running(heap) /\ heap.free_listp # NULLP /\ DOMAIN live # {} /\ calls >= 3

\* C5: on an initialized heap, a call of mm_malloc during which the driver
\* refuses a growth request returns NULL, and the region, every word of the
\* heap and the free list are as before the call.
C5_RefusedGrowthLeavesHeap ==
    [][(op'.name = "malloc" /\ heap.heap_listp # 0 /\ heap'.denied) =>
        (op'.ret = 0 /\ View(heap') = View(heap) /\ live' = live)]_vars

\* mm_malloc(n), n > 0, has returned NULL after a refused growth request, on
\* an initialized heap with a live allocation and a free block.
C5_Witness ==
    /\ op.name = "malloc" /\ op.n > 0 /\ op.ret = 0 /\ heap.denied
    /\ Running(heap) /\ heap.free_listp # NULLP /\ DOMAIN live # {} /\ calls >= 3

\* C6: when the driver refuses a growth request of mm_init, mm_init returns
\* -1 and has accessed no word outside the region.
C6_InitReportsRefusal ==
    (op.name = "init" /\ heap.denied) => (Running(heap) /\ op.ret = -1)

\* C7: mm_free(NULL) accesses no memory through the null reference and
\* changes nothing.
C7_FreeNullIsNoOp ==
    [][(op'.name = "free" /\ op'.p = 0) =>
        (Running(heap') /\ View(heap') = View(heap) /\ live' = live)]_vars

\* C8: when mm_malloc(n), n > 0, would return a reference, mm_realloc(NULL, n)
\* returns that reference and leaves the heap mm_malloc(n) would leave.
C8_ReallocNullIsMalloc ==
    [][(op'.name = "realloc" /\ op'.p = 0 /\ op'.n > 0) =>
        \E lim \in LimsOf(heap) :
            LET r == mm_malloc(Enter(heap), op'.n, lim)
            IN  (Running(r.st) /\ r.bp # 0) => (heap' = r.st /\ op'.ret = r.bp)]_vars

\* The index of block bp in the walk w (0 when it is not met).
IndexOf(w, bp) == IF bp \in Range(w) THEN CHOOSE i \in DOMAIN w : w[i] = bp ELSE 0

\* C9: mm_free(p) of a live p whose block the heap walk meets leaves, at the
\* head of the free list, one free block that starts at p's block or at its
\* free predecessor and whose size is the sum of p's block and its free
\* neighbours; an absorbed successor is no list node any more; every other
\* block keeps its header.
C9_FreeCoalesces ==
    [][(op'.name = "free" /\ op'.p \in DOMAIN live /\ op'.p \in Range(HeapBlocks(heap))) =>
        LET p == op'.p
            W == HeapBlocks(heap)
            i == IndexOf(W, p)
            prevFree == i > 1 /\ IsFree(heap, W[i - 1])
            nextFree == i < Len(W) /\ IsFree(heap, W[i + 1])
            start == IF prevFree THEN W[i - 1] ELSE p
            total == BlockSize(heap, p)
                     + (IF prevFree THEN BlockSize(heap, W[i - 1]) ELSE 0)
                     + (IF nextFree THEN BlockSize(heap, W[i + 1]) ELSE 0)
            merged == {p} \cup (IF prevFree THEN {W[i - 1]} ELSE {})
                          \cup (IF nextFree THEN {W[i + 1]} ELSE {})
        IN  /\ Running(heap')
            /\ heap'.free_listp = P(start)
            /\ GET(heap', HDRP(start)) = PACK(total, 0)
            /\ \A b \in merged \ {start} : b \notin Range(FreeNodes(heap'))
            /\ \A b \in Range(W) \ merged : GET(heap', HDRP(b)) = GET(heap, HDRP(b))]_vars

\* C10: after every call on an initialized heap, the heap walk ends at the
\* epilogue, the free list is a list of distinct blocks inside the region,
\* and its nodes are exactly the blocks the heap walk finds free.
C10_ListIsFreeBlocks ==
    Initialized(heap) =>
        LET W == HeapBlocks(heap)
            L == FreeNodes(heap)
        IN  /\ WalkEnd(heap) = heap.brk
            /\ WILD \notin Range(L)
            /\ Cardinality(Range(L)) = Len(L)
            /\ Range(L) = {b \in Range(W) : IsFree(heap, b)}

\* C11: in every state reached from mm_init by calls on live references, a
\* call of mm_checkheap returns: it reports no violation and reads no word
\* outside the region.
C11_CheckHeapPasses ==
    (Initialized(heap) /\ ~(op.name = "init" /\ op.ret # 0)) => mm_checkheap(heap) = "ok"

\* C12: after every call on an initialized heap, every block the heap walk
\* meets between the prologue and the epilogue has a header word equal to
\* its footer word.
C12_HeaderEqualsFooter ==
    Initialized(heap) =>
        \A b \in Range(HeapBlocks(heap)) :
            GET(heap, HDRP(b)) = GET(heap, FTRP(heap, b))

\* The first node of the free list of st, in list order, whose block has at
\* least asize bytes (0 when there is none).
FirstFit(st, asize) ==
    LET L == FreeNodes(st)
        I == {i \in DOMAIN L : BlockSize(st, L[i]) >= asize}
    IN  IF I = {} THEN 0 ELSE L[CHOOSE i \in I : \A j \in I : i <= j]

\* find_fit(asize) scans the list: it does not take the bypass.
Scans(st, asize) == ~(st.size = asize /\ st.count > MISSLIMIT)

\* C13: a scan of find_fit returns the first node of the list that is large
\* enough (NULL when there is none) and leaves the list as it was; and a
\* request that follows a release and fits in the block the release left at
\* the head of the list returns that block without growing the region.
C13_FirstFitReusesRelease ==
    [][(op'.name = "malloc" /\ op'.n > 0 /\ Initialized(heap)) =>
        /\ Scans(heap, ADJ(op'.n)) =>
              /\ Running(find_fit(Enter(heap), ADJ(op'.n), 0).st)
              /\ find_fit(Enter(heap), ADJ(op'.n), 0).bp = FirstFit(heap, ADJ(op'.n))
              /\ View(find_fit(Enter(heap), ADJ(op'.n), 0).st) = View(heap)
        /\ (op.name = "free" /\ op.p # 0
            /\ ADJ(op'.n) <= BlockSize(heap, Addr(heap.free_listp))) =>
              /\ Running(heap')
              /\ op'.ret = Addr(heap.free_listp)
              /\ heap'.brk = heap.brk]_vars

\* C14: a request that finds a fit in the free list, and a request of
\* another size than the one remembered, each end the run of consecutive
\* misses: whatever the size of the request that follows, find_fit scans the
\* list for it and does not grow the region directly.
C14_FitEndsMissRun ==
    [][(op'.name = "malloc" /\ op'.n > 0 /\ Initialized(heap) /\ Running(heap')
        /\ Scans(heap, ADJ(op'.n))
        /\ (find_fit(Enter(heap), ADJ(op'.n), 0).bp # 0 \/ heap.size # ADJ(op'.n))) =>
        \A m \in Sizes : Scans(heap', ADJ(m))]_vars

\* mm_malloc(n) is served from the free list of st: find_fit scans and finds
\* a block.
ServedFromList(st, n) ==
    /\ Initialized(st) /\ n > 0 /\ Scans(st, ADJ(n))
    /\ find_fit(Enter(st), ADJ(n), 0).bp # 0

\* C15: when mm_malloc places asize bytes into the free block b of size c
\* that find_fit returned, b leaves the free list; with c - asize >= 24, b
\* becomes an allocated block of asize bytes and b + asize a free block of
\* c - asize bytes at the head of the list; otherwise b becomes an allocated
\* block of c bytes and the list only loses b; and every other block of the
\* heap keeps its header and footer words.
C15_PlaceSplitsOrTakesAll ==
    [][(op'.name = "malloc" /\ ServedFromList(heap, op'.n)) =>
        LET b == find_fit(Enter(heap), ADJ(op'.n), 0).bp
            c == BlockSize(heap, b)
            asize == ADJ(op'.n)
        IN  /\ Running(heap') /\ op'.ret = b /\ heap'.brk = heap.brk
            /\ b \notin Range(FreeNodes(heap'))
            /\ c - asize >= MINEXTEND =>
                  /\ GET(heap', HDRP(b)) = PACK(asize, 1)
                  /\ GET(heap', b + asize - DSIZE) = PACK(asize, 1)
                  /\ GET(heap', HDRP(b + asize)) = PACK(c - asize, 0)
                  /\ GET(heap', b + c - DSIZE) = PACK(c - asize, 0)
                  /\ heap'.free_listp = P(b + asize)
                  /\ Range(FreeNodes(heap')) = (Range(FreeNodes(heap)) \ {b}) \cup {b + asize}
            /\ c - asize < MINEXTEND =>
                  /\ GET(heap', HDRP(b)) = PACK(c, 1)
                  /\ GET(heap', b + c - DSIZE) = PACK(c, 1)
                  /\ Range(FreeNodes(heap')) = Range(FreeNodes(heap)) \ {b}
            /\ \A x \in Range(HeapBlocks(heap)) \ {b} :
                  /\ GET(heap', HDRP(x)) = GET(heap, HDRP(x))
                  /\ GET(heap', FTRP(heap, x)) = GET(heap, FTRP(heap, x))]_vars

\* C16: after every call on an initialized heap, and while the caller stores
\* into the payloads of its live allocations only, the free list is finite
\* and acyclic and stays inside the region, the prev link of its head is
\* null, the next link of its last node is null, and the prev link of the
\* successor of a node is that node.
C16_ListIsDoublyLinked ==
    Initialized(heap) =>
        LET L == FreeNodes(heap)
        IN  /\ WILD \notin Range(L)
            /\ Cardinality(Range(L)) = Len(L)
            /\ Len(L) <= Cardinality(DOMAIN heap.mem)
            /\ L # <<>> => GET_PREV(heap, L[1]) = NULLP
            /\ L # <<>> => GET_NEXT(heap, L[Len(L)]) = NULLP
            /\ \A i \in 1 .. Len(L) - 1 : GET_PREV(heap, L[i + 1]) = P(L[i])

\* C17: every block a call of mm_malloc hands out has a total size of at
\* least 24 bytes, and both of its link words lie strictly between its header
\* and its footer.
C17_BlocksHoldBothLinks ==
    [][(op'.name = "malloc" /\ op'.ret # 0 /\ Running(heap')) =>
          /\ BlockSize(heap', op'.ret) >= MINEXTEND
          /\ \A a \in PtrWords(op'.ret) \cup PtrWords(op'.ret + DSIZE) :
                HDRP(op'.ret) < a /\ a < FTRP(heap', op'.ret)]_vars

\* C18: on an initialized heap, mm_malloc of a size that is negative when
\* read as a signed integer returns NULL and leaves the region, every word of
\* the heap, the free list and the statics of find_fit as they were.
C18_NegativeRequestRefused ==
    [][(op'.name = "malloc" /\ op'.n < 0 /\ Initialized(heap)) =>
          /\ op'.ret = 0 /\ Running(heap') /\ View(heap') = View(heap)
          /\ heap'.size = heap.size /\ heap'.count = heap.count]_vars

\* C19: after every call on an initialized heap, no two blocks that follow
\* one another in the heap walk are both free.
C19_NoAdjacentFreeBlocks ==
    Initialized(heap) =>
        \A i \in 1 .. Len(HeapBlocks(heap)) - 1 :
            ~(IsFree(heap, HeapBlocks(heap)[i]) /\ IsFree(heap, HeapBlocks(heap)[i + 1]))

\* C20: the first mm_malloc after an mm_init on an empty region returns the
\* address and leaves the region size that the same call returns and leaves
\* in a first run of the program, under a driver that grants or refuses
\* growth alike, whatever calls came before the mm_init.
SameOutcome(r, ret, brk) == Ret(r.st, r.bp) = ret /\ Leave(r.st).brk = brk
C20_InitResetsAllState ==
    [][(op.name = "restart" /\ op.ret = 0 /\ op'.name = "malloc") =>
          \E lim \in LimsOf(FreshHeap) :
              SameOutcome(mm_malloc(FreshHeap, op'.n, lim), op'.ret, heap'.brk)]_vars

====
